---------------------------- MODULE Spec2Model ----------------------------
(***************************************************************************)
(* A model of the five PostToolUse hooks under src/hooks.  Each hook is a  *)
(* process that reads one edit description from standard input, derives   *)
(* (file_path, content), runs its text checks and exits with status 0      *)
(* (allow) or 2 (block).  An uncaught Python exception ends the process    *)
(* with status 1 and a traceback instead of diagnostics.                   *)
(*                                                                         *)
(* Texts are TLA+ strings; the regular expressions of the source are       *)
(* written as syntax trees and matched by the operator M below, which      *)
(* returns the set of positions a match can end at.                        *)
(***************************************************************************)
EXTENDS Integers, Sequences, FiniteSets, TLC

VARIABLES hook, stdin, pc, file_path, content, layer, usings, diagnostics,
          exit_code, raised,
          hash_seed,   \* the string hash seed of the process, which fixes the
                       \* order a set of strings is iterated in
          run, first   \* history: the number of the invocation, and what the
                       \* first invocation read and left behind

vars == <<hook, stdin, pc, file_path, content, layer, usings, diagnostics,
          exit_code, raised, hash_seed, run, first>>

---------------------------------------------------------------------------
(* Bounds of the model.                                                    *)

\* lines of a generated text
MaxLines == 2
\* dot-separated segments of a generated namespace
MaxSegs == 2
\* fragments of a generated MultiEdit
MaxEdits == 2

---------------------------------------------------------------------------
(* Strings, as Python's str operations use them.                           *)

Max(S) == CHOOSE m \in S : \A n \in S : n <= m
Min(S) == CHOOSE m \in S : \A n \in S : m <= n

\* s[i-1:j] of Python, 1-based and inclusive, clipped to the string
Sub(s, i, j) ==
    LET a == IF i < 1 THEN 1 ELSE i
        b == IF j > Len(s) THEN Len(s) ELSE j
    IN  IF a > b THEN "" ELSE SubSeq(s, a, b)

Char(s, i) == Sub(s, i, i)

CharsOf(s) == {SubSeq(s, i, i) : i \in 1..Len(s)}

LowerAlpha == "abcdefghijklmnopqrstuvwxyz"
UpperAlpha == "ABCDEFGHIJKLMNOPQRSTUVWXYZ"
DigitChars == CharsOf("0123456789")
\* \w, \s and \d over the ASCII characters the generated texts use
WordChars == CharsOf(LowerAlpha) \cup CharsOf(UpperAlpha) \cup DigitChars \cup {"_"}
SpaceChars == {" ", "\t", "\n", "\r"}

\* The characters of the generated names in code point order, and s < t of
\* Python on strings of them.
CodeOrder == "0123456789" \o UpperAlpha \o "_" \o LowerAlpha
Ord(c) == CHOOSE i \in 1..Len(CodeOrder) : SubSeq(CodeOrder, i, i) = c
RECURSIVE StrLess(_, _)
StrLess(s, t) ==
    IF t = "" THEN FALSE
    ELSE IF s = "" THEN TRUE
    ELSE IF Head(s) = Head(t) THEN StrLess(Tail(s), Tail(t))
    ELSE Ord(SubSeq(s, 1, 1)) < Ord(SubSeq(t, 1, 1))

\* the strings of a set in ascending order
RECURSIVE Ascending(_)
Ascending(S) ==
    IF S = {} THEN <<>>
    ELSE LET least == CHOOSE x \in S : \A y \in S \ {x} : StrLess(x, y)
         IN  <<least>> \o Ascending(S \ {least})

Reverse(seq) == [i \in 1..Len(seq) |-> seq[Len(seq) + 1 - i]]

\* list(S) for a set of strings: the order depends on the hash seed of the
\* process; two seeds give two orders that differ on every set of two or
\* more strings
HashSeeds == {"a", "b"}
IterationOrder(S) == IF hash_seed = "a" THEN Ascending(S) ELSE Reverse(Ascending(S))

\* an order that sorted does not restore
Unsorted(names) == names

\* sorted(names) for a list of different strings
Sorted(names) == Ascending({names[i] : i \in 1..Len(names)})

\* sub in s
Contains(sub, s) ==
    \E i \in 1..(Len(s) - Len(sub) + 1) : SubSeq(s, i, i + Len(sub) - 1) = sub

\* s.startswith(p), s.endswith(p)
StartsWith(s, p) == Len(p) <= Len(s) /\ SubSeq(s, 1, Len(p)) = p
EndsWith(s, p) == Len(p) <= Len(s) /\ SubSeq(s, Len(s) - Len(p) + 1, Len(s)) = p

\* s.lstrip(), s.strip()
LStrip(s) ==
    LET keep == {i \in 1..Len(s) : SubSeq(s, i, i) \notin SpaceChars}
    IN  IF keep = {} THEN "" ELSE SubSeq(s, Min(keep), Len(s))
Strip(s) ==
    LET keep == {i \in 1..Len(s) : SubSeq(s, i, i) \notin SpaceChars}
    IN  IF keep = {} THEN "" ELSE SubSeq(s, Min(keep), Max(keep))

\* s.lower(), s.upper()
LowerChar(c) ==
    IF \E i \in 1..26 : SubSeq(UpperAlpha, i, i) = c
    THEN LET i == CHOOSE k \in 1..26 : SubSeq(UpperAlpha, k, k) = c
         IN  SubSeq(LowerAlpha, i, i)
    ELSE c
UpperChar(c) ==
    IF \E i \in 1..26 : SubSeq(LowerAlpha, i, i) = c
    THEN LET i == CHOOSE k \in 1..26 : SubSeq(LowerAlpha, k, k) = c
         IN  SubSeq(UpperAlpha, i, i)
    ELSE c
RECURSIVE Lower(_)
Lower(s) == IF s = "" THEN "" ELSE LowerChar(Head(s)) \o Lower(Tail(s))
RECURSIVE Upper(_)
Upper(s) == IF s = "" THEN "" ELSE UpperChar(Head(s)) \o Upper(Tail(s))

\* s.count(c) for a single character c
Count(s, c) == Cardinality({i \in 1..Len(s) : SubSeq(s, i, i) = c})

\* sep.join(parts)
RECURSIVE Join(_, _)
Join(parts, sep) ==
    IF parts = <<>> THEN ""
    ELSE IF Len(parts) = 1 THEN parts[1]
    ELSE parts[1] \o sep \o Join(Tail(parts), sep)

\* s.split(sep) for a single character sep
RECURSIVE Split(_, _)
Split(s, sep) ==
    LET at == {i \in 1..Len(s) : SubSeq(s, i, i) = sep}
    IN  IF at = {} THEN <<s>>
        ELSE <<Sub(s, 1, Min(at) - 1)>> \o Split(Sub(s, Min(at) + 1, Len(s)), sep)

\* s.splitlines(): the generated texts break lines with "\n" only; a final
\* line break adds no empty last line, and the empty text has no line
SplitLines(s) ==
    IF s = "" THEN <<>>
    ELSE IF EndsWith(s, "\n") THEN Split(Sub(s, 1, Len(s) - 1), "\n")
    ELSE Split(s, "\n")

\* os.path.basename(path)
Basename(path) ==
    LET at == {i \in 1..Len(path) : SubSeq(path, i, i) = "/"}
    IN  IF at = {} THEN path ELSE Sub(path, Max(at) + 1, Len(path))

\* all sequences over S of length 1..n
RECURSIVE SeqsUpTo(_, _)
SeqsUpTo(S, n) ==
    IF n = 0 THEN {}
    ELSE LET shorter == SeqsUpTo(S, n - 1)
         IN  {<<x>> : x \in S} \cup shorter
               \cup {Append(q, x) : q \in {p \in shorter : Len(p) = n - 1}, x \in S}

---------------------------------------------------------------------------
(* Regular expressions of Python's re module.  M(re, s, I) is the set of   *)
(* positions at which a match of re that starts at a position of I can     *)
(* end; a position is the index of the next character, 1..Len(s)+1.        *)

Lit(s) == [t |-> "lit", s |-> s]
Cls(S) == [t |-> "cls", set |-> S]
NotCls(S) == [t |-> "ncls", set |-> S]
Cat(xs) == [t |-> "cat", xs |-> xs]
Alt(xs) == [t |-> "alt", xs |-> xs]
Opt(a) == [t |-> "opt", a |-> a]
Star(a) == [t |-> "star", a |-> a]
Plus(a) == [t |-> "cat", xs |-> <<a, [t |-> "star", a |-> a]>>]
\* \b
WordBoundary == [t |-> "wb"]
\* .
AnyChar == [t |-> "ncls", set |-> {"\n"}]
\* \s \w \d
SpaceRe == Cls(SpaceChars)
WordRe == Cls(WordChars)
DigitRe == Cls(DigitChars)

IsWordAt(s, i) == i >= 1 /\ i <= Len(s) /\ SubSeq(s, i, i) \in WordChars

RECURSIVE M(_, _, _)
RECURSIVE MCat(_, _, _, _)
RECURSIVE MStar(_, _, _)
MCat(xs, k, s, I) ==
    IF k > Len(xs) \/ I = {} THEN I ELSE MCat(xs, k + 1, s, M(xs[k], s, I))
MStar(a, s, I) ==
    LET J == M(a, s, I) \ I IN IF J = {} THEN I ELSE MStar(a, s, I \cup J)
M(re, s, I) ==
    CASE re.t = "lit" ->
           {i + Len(re.s) : i \in {j \in I : /\ j + Len(re.s) - 1 <= Len(s)
                                             /\ SubSeq(s, j, j + Len(re.s) - 1) = re.s}}
      [] re.t = "cls" ->
           {i + 1 : i \in {j \in I : j <= Len(s) /\ SubSeq(s, j, j) \in re.set}}
      [] re.t = "ncls" ->
           {i + 1 : i \in {j \in I : j <= Len(s) /\ SubSeq(s, j, j) \notin re.set}}
      [] re.t = "wb" -> {i \in I : IsWordAt(s, i - 1) # IsWordAt(s, i)}
      [] re.t = "cat" -> MCat(re.xs, 1, s, I)
      [] re.t = "alt" -> UNION {M(re.xs[k], s, I) : k \in 1..Len(re.xs)}
      [] re.t = "opt" -> I \cup M(re.a, s, I)
      [] re.t = "star" -> MStar(re.a, s, I)

\* re.match(re, s) is not None
Matches(re, s) == M(re, s, {1}) # {}
\* re.search(re, s) is not None
Searches(re, s) == M(re, s, 1..(Len(s) + 1)) # {}

\* The end of a greedy group that may start at the positions of From and is
\* followed by post: the longest extent after which post still matches
\* (0 when there is none).
GreedyEnd(grp, post, s, From) ==
    LET ends == {g \in M(grp, s, From) : M(post, s, {g}) # {}}
    IN  IF ends = {} THEN 0 ELSE Max(ends)

---------------------------------------------------------------------------
(* Sequences of diagnostics.                                               *)

RECURSIVE ConcatAll(_)
ConcatAll(ss) == IF Len(ss) = 0 THEN <<>> ELSE ss[1] \o ConcatAll(Tail(ss))

\* One printed finding: the rule that produced it, its severity, the line
\* number its message carries (0: the message names no line) and the name
\* the message quotes ("" when it quotes none).
Diag(rule, severity, line, subject) ==
    [rule |-> rule, severity |-> severity, line |-> line, subject |-> subject]

HasBlock(ds) == \E i \in 1..Len(ds) : ds[i].severity = "BLOCK"

---------------------------------------------------------------------------
(* JSON values as json.loads returns them.                                 *)

JNull == [k |-> "null"]
JBool(b) == [k |-> "bool", b |-> b]
JNum(n) == [k |-> "num", n |-> n]
JStr(s) == [k |-> "str", s |-> s]
JList(xs) == [k |-> "list", xs |-> xs]
JObj(o) == [k |-> "obj", o |-> o]
\* text on standard input that json.loads rejects
NotJson == [k |-> "garbage"]
\* the value of a variable the process has not assigned
Unset == [k |-> "unset"]

IsStr(v) == v.k = "str"
IsStrEq(v, s) == v.k = "str" /\ v.s = s

\* d.get(key, default) on a dict d
Get(d, key, default) == IF key \in DOMAIN d.o THEN d.o[key] ELSE default

\* not v
Falsy(v) ==
    CASE v.k = "null" -> TRUE
      [] v.k = "bool" -> ~v.b
      [] v.k = "num" -> v.n = 0
      [] v.k = "str" -> v.s = ""
      [] v.k = "list" -> Len(v.xs) = 0
      [] v.k = "obj" -> DOMAIN v.o = {}

\* the join of extract_file_and_content without its separator
JoinEdits_NoSeparator(edits) ==
    CASE edits.k = "list" ->
           IF \E i \in 1..Len(edits.xs) : edits.xs[i].k # "obj" THEN Unset
           ELSE LET frag == [i \in 1..Len(edits.xs) |->
                               Get(edits.xs[i], "new_string", JStr(""))]
                IN  IF \E i \in 1..Len(frag) : ~IsStr(frag[i]) THEN Unset
                    ELSE JStr(Join([i \in 1..Len(frag) |-> frag[i].s], ""))
      [] edits.k = "str" -> IF edits.s = "" THEN JStr("") ELSE Unset
      [] edits.k = "obj" -> IF DOMAIN edits.o = {} THEN JStr("") ELSE Unset
      [] OTHER -> Unset

\* "\n".join(e.get("new_string", "") for e in edits): the joined text, or
\* Unset when the expression raises (edits is not iterable, an element has
\* no get, or a new_string is not a str)
JoinEdits(edits) ==
    CASE edits.k = "list" ->
           IF \E i \in 1..Len(edits.xs) : edits.xs[i].k # "obj" THEN Unset
           ELSE LET frag == [i \in 1..Len(edits.xs) |->
                               Get(edits.xs[i], "new_string", JStr(""))]
                IN  IF \E i \in 1..Len(frag) : ~IsStr(frag[i]) THEN Unset
                    ELSE JStr(Join([i \in 1..Len(frag) |-> frag[i].s], "\n"))
      [] edits.k = "str" -> IF edits.s = "" THEN JStr("") ELSE Unset
      [] edits.k = "obj" -> IF DOMAIN edits.o = {} THEN JStr("") ELSE Unset
      [] OTHER -> Unset

\* extract_file_and_content, the same function in each of the five hooks:
\* (file_path, content), or raised when payload.get, tool_input.get or the
\* join raises
extract_file_and_content(payload) ==
    IF payload.k # "obj"
    THEN [raised |-> TRUE, file_path |-> Unset, content |-> Unset]
    ELSE LET tool_name == Get(payload, "tool_name", JStr(""))
             tool_input == Get(payload, "tool_input", JObj(<<>>))
         IN  IF tool_input.k # "obj"
             THEN [raised |-> TRUE, file_path |-> Unset, content |-> Unset]
             ELSE LET path == Get(tool_input, "file_path", JStr(""))
                      text ==
                        IF IsStrEq(tool_name, "Write")
                        THEN Get(tool_input, "content", JStr(""))
                        ELSE IF IsStrEq(tool_name, "Edit")
                        THEN Get(tool_input, "new_string", JStr(""))
                        ELSE IF IsStrEq(tool_name, "MultiEdit")
                        THEN JoinEdits(Get(tool_input, "edits", JList(<<>>)))
                        ELSE JStr("")
                  IN  IF text.k = "unset"
                      THEN [raised |-> TRUE, file_path |-> path, content |-> Unset]
                      ELSE [raised |-> FALSE, file_path |-> path, content |-> text]

\* What a hook's main leaves behind when it exits.
Exit(path, text, lay, us, ds, code) ==
    [file_path |-> path, content |-> text, layer |-> lay, usings |-> us,
     diagnostics |-> ds, exit_code |-> code, raised |-> FALSE]
\* An uncaught exception: the interpreter prints a traceback, no diagnostic,
\* and the process ends with status 1.
Raise(path, text, lay) ==
    [file_path |-> path, content |-> text, layer |-> lay, usings |-> <<>>,
     diagnostics |-> <<>>, exit_code |-> 1, raised |-> TRUE]

---------------------------------------------------------------------------
(* layer_dependency_hook.py                                                *)

LAYER_ORDER == <<"Domain", "Application", "Infrastructure", "Api">>
LAYER_PATTERNS ==
    [Domain |-> <<".Domain/", ".Domain\\", "/Domain/", "\\Domain\\">>,
     Application |-> <<".Application/", ".Application\\", "/Application/",
                       "\\Application\\">>,
     Infrastructure |-> <<".Infrastructure/", ".Infrastructure\\",
                          "/Infrastructure/", "\\Infrastructure\\">>,
     Api |-> <<".Api/", ".Api\\", ".API/", ".API\\", "/Api/", "\\Api\\",
               "/API/", "\\API\\">>]

DOMAIN_FORBIDDEN ==
    <<"Infrastructure", "Microsoft.AspNetCore", "Microsoft.EntityFrameworkCore",
      "Dapper", "System.Data", "Newtonsoft.Json", "System.Text.Json">>
APPLICATION_FORBIDDEN == <<"Infrastructure">>
API_WARN_PATTERNS == <<"Repository", "Repositories", "Persistence">>

\* detect_layer: the first layer, in the dict's order, one of whose patterns
\* occurs in the path; "None" when there is none
detect_layer(path) ==
    LET hit == {n \in 1..Len(LAYER_ORDER) :
                  \E k \in 1..Len(LAYER_PATTERNS[LAYER_ORDER[n]]) :
                     Contains(LAYER_PATTERNS[LAYER_ORDER[n]][k], path)}
    IN  IF hit = {} THEN "None" ELSE LAYER_ORDER[Min(hit)]

\* r'^using\s+([\w.]+)\s*;' and r'^using\s+\w+\s*=\s*([\w.]+)\s*;', each as
\* the part before the group, the group, and the part after it
NamespaceRe == Plus(Cls(WordChars \cup {"."}))
UsingPre == Cat(<<Lit("using"), Plus(SpaceRe)>>)
UsingAliasPre ==
    Cat(<<Lit("using"), Plus(SpaceRe), Plus(WordRe), Star(SpaceRe), Lit("="),
          Star(SpaceRe)>>)
UsingPost == Cat(<<Star(SpaceRe), Lit(";")>>)

\* The namespace a directive of the given form declares on a stripped line,
\* as a sequence of zero or one (line, namespace) pairs.
UsingOn(pre, i, stripped) ==
    LET starts == {p \in M(pre, stripped, {1}) :
                     GreedyEnd(NamespaceRe, UsingPost, stripped, {p}) # 0}
    IN  IF starts = {} THEN <<>>
        ELSE LET p == Max(starts)
                 e == GreedyEnd(NamespaceRe, UsingPost, stripped, {p})
             IN  <<[line |-> i, namespace |-> Sub(stripped, p, e - 1)]>>

extract_usings(text) ==
    LET lines == SplitLines(text)
    IN  ConcatAll([i \in 1..Len(lines) |->
            UsingOn(UsingPre, i, Strip(lines[i]))
              \o UsingOn(UsingAliasPre, i, Strip(lines[i]))])

\* check_domain_layer with the membership test of check_application_layer
check_domain_layer_SegmentExact(us) ==
    ConcatAll([u \in 1..Len(us) |->
        ConcatAll([f \in 1..Len(DOMAIN_FORBIDDEN) |->
            IF \E k \in 1..Len(Split(us[u].namespace, ".")) :
                 Split(us[u].namespace, ".")[k] = DOMAIN_FORBIDDEN[f]
            THEN <<Diag("layer-domain", "BLOCK", us[u].line, us[u].namespace)>>
            ELSE <<>>])])

check_domain_layer(us) ==
    ConcatAll([u \in 1..Len(us) |->
        ConcatAll([f \in 1..Len(DOMAIN_FORBIDDEN) |->
            IF Contains(DOMAIN_FORBIDDEN[f], us[u].namespace)
            THEN <<Diag("layer-domain", "BLOCK", us[u].line, us[u].namespace)>>
            ELSE <<>>])])

\* forbidden in namespace, the substring test of check_domain_layer
InSegments_Substring(forbidden, namespace) == Contains(forbidden, namespace)

\* forbidden in namespace.split(".")
InSegments(forbidden, namespace) ==
    LET segments == Split(namespace, ".")
    IN  \E k \in 1..Len(segments) : segments[k] = forbidden

check_application_layer(us) ==
    ConcatAll([u \in 1..Len(us) |->
        ConcatAll([f \in 1..Len(APPLICATION_FORBIDDEN) |->
            IF InSegments(APPLICATION_FORBIDDEN[f], us[u].namespace)
            THEN <<Diag("layer-application", "BLOCK", us[u].line, us[u].namespace)>>
            ELSE <<>>])])

\* check_api_layer reporting its findings as blocking
check_api_layer_Blocking(us) ==
    ConcatAll([u \in 1..Len(us) |->
        ConcatAll([f \in 1..Len(API_WARN_PATTERNS) |->
            IF Contains(API_WARN_PATTERNS[f], us[u].namespace)
            THEN <<Diag("layer-api", "BLOCK", us[u].line, us[u].namespace)>>
            ELSE <<>>])])

check_api_layer(us) ==
    ConcatAll([u \in 1..Len(us) |->
        ConcatAll([f \in 1..Len(API_WARN_PATTERNS) |->
            IF Contains(API_WARN_PATTERNS[f], us[u].namespace)
            THEN <<Diag("layer-api", "WARN", us[u].line, us[u].namespace)>>
            ELSE <<>>])])

\* the violations main collects for the detected layer
layer_violations(lay, us) ==
    IF lay = "Domain" THEN check_domain_layer(us)
    ELSE IF lay = "Application" THEN check_application_layer(us)
    ELSE IF lay = "Api" THEN check_api_layer(us)
    ELSE <<>>

\* main without the sys.exit(2) of its has_blockers branch
layer_exit_code_NeverBlocks(violations) == IF HasBlock(violations) THEN 0 ELSE 0

\* the status main ends with once it has printed the violations
layer_exit_code(violations) == IF HasBlock(violations) THEN 2 ELSE 0

layer_main(input) ==
    IF input.k = "garbage" THEN Exit(Unset, Unset, "None", <<>>, <<>>, 0)
    ELSE LET x == extract_file_and_content(input)
             path == x.file_path
             text == x.content
         IN  IF x.raised THEN Raise(path, text, "None")
             ELSE IF ~IsStr(path) THEN Raise(path, text, "None")
             ELSE IF ~EndsWith(path.s, ".cs")
             THEN Exit(path, text, "None", <<>>, <<>>, 0)
             ELSE IF Falsy(text) THEN Exit(path, text, "None", <<>>, <<>>, 0)
             ELSE LET lay == detect_layer(path.s)
                  IN  IF lay = "None" THEN Exit(path, text, lay, <<>>, <<>>, 0)
                      ELSE IF ~IsStr(text) THEN Raise(path, text, lay)
                      ELSE LET us == extract_usings(text.s)
                               violations == layer_violations(lay, us)
                           IN  IF Len(us) = 0
                               THEN Exit(path, text, lay, us, <<>>, 0)
                               ELSE Exit(path, text, lay, us, violations,
                                         layer_exit_code(violations))

---------------------------------------------------------------------------
(* sql_format_hook.py                                                      *)

\* a line the SQL checks skip as a comment
SqlCommentLine(stripped) ==
    StartsWith(stripped, "--") \/ StartsWith(stripped, "/*") \/ StartsWith(stripped, "*")

check_header_comment(text) ==
    LET stripped == LStrip(text)
    IN  IF ~StartsWith(stripped, "--") /\ ~StartsWith(stripped, "/*")
        THEN <<Diag("sql-missing-header", "WARN", 0, "")>>
        ELSE <<>>

SQL_BUILTIN == {"ROWCOUNT", "ERROR", "IDENTITY", "SCOPE_IDENTITY", "TRANCOUNT"}

\* set(re.findall(r'@(\w+)', content))
SqlParams(text) ==
    {Sub(text, i + 1, Max(M(Plus(WordRe), text, {i + 1})) - 1) :
       i \in {j \in 1..Len(text) : SubSeq(text, j, j) = "@" /\ IsWordAt(text, j + 1)}}

\* the stripped comment lines that open the file: the scan passes blank
\* lines and stops at the first line that is neither
RECURSIVE CommentSection(_, _)
CommentSection(lines, i) ==
    IF i > Len(lines) THEN <<>>
    ELSE LET stripped == Strip(lines[i])
         IN  IF \/ StartsWith(stripped, "--") \/ StartsWith(stripped, "/*")
                \/ StartsWith(stripped, "*") \/ StartsWith(stripped, "*/")
             THEN <<stripped>> \o CommentSection(lines, i + 1)
             ELSE IF stripped = "" THEN CommentSection(lines, i + 1)
             ELSE <<>>

\* the subject of the diagnostic is the list of names its message gives
check_parameter_documentation(text) ==
    LET params == IterationOrder(SqlParams(text) \ SQL_BUILTIN)
        comment_text == Lower(Join(CommentSection(SplitLines(text), 1), "\n"))
        missing == SelectSeq(params, LAMBDA p : ~Contains(Lower(p), comment_text))
        undocumented == [i \in 1..Len(missing) |-> "@" \o missing[i]]
    IN  IF Len(params) = 0 \/ Len(undocumented) = 0 THEN <<>>
        ELSE <<Diag("sql-undocumented-param", "WARN", 0,
                    Join(Sorted(undocumented), ", "))>>

\* r'\+\s*@', r"'\s*\+" and r'\bCONCAT\s*\(' (re.IGNORECASE: matched on the
\* lowered line)
PlusAtRe == Cat(<<Lit("+"), Star(SpaceRe), Lit("@")>>)
QuotePlusRe == Cat(<<Lit("'"), Star(SpaceRe), Lit("+")>>)
ConcatCallRe == Cat(<<WordBoundary, Lit("concat"), Star(SpaceRe), Lit("(")>>)

ConcatOnLine(i, stripped) ==
    IF SqlCommentLine(stripped) THEN <<>>
    ELSE (IF Searches(PlusAtRe, stripped) \/ Searches(QuotePlusRe, stripped)
          THEN <<Diag("sql-string-concat", "BLOCK", i, "+")>> ELSE <<>>)
      \o (IF Searches(ConcatCallRe, Lower(stripped))
          THEN <<Diag("sql-string-concat", "BLOCK", i, "CONCAT")>> ELSE <<>>)
      \o (IF Contains("string.Format", stripped) \/ Contains("String.Format", stripped)
          THEN <<Diag("sql-string-concat", "BLOCK", i, "string.Format")>> ELSE <<>>)

check_string_concatenation(text) ==
    LET lines == SplitLines(text)
    IN  ConcatAll([i \in 1..Len(lines) |-> ConcatOnLine(i, Strip(lines[i]))])

WHERE_TERMINATORS ==
    <<"ORDER BY", "GROUP BY", "HAVING", "LIMIT", "OFFSET", "UNION", "INSERT",
      "UPDATE", "DELETE">>

HasTerminator(upper) ==
    \E k \in 1..Len(WHERE_TERMINATORS) : Contains(WHERE_TERMINATORS[k], upper)

\* r"=\s*'[^'@][^']*'" and r'=\s*(\d+)'
StringLiteralRe ==
    Cat(<<Lit("="), Star(SpaceRe), Lit("'"), NotCls({"'", "@"}), Star(NotCls({"'"})),
          Lit("'")>>)
EqualsRe == Cat(<<Lit("="), Star(SpaceRe)>>)
NumberRe == Plus(DigitRe)

\* int(digits)
RECURSIVE ToInt(_)
ToInt(digits) ==
    IF digits = "" THEN 0
    ELSE LET last == SubSeq(digits, Len(digits), Len(digits))
             d == CHOOSE n \in 0..9 : SubSeq("0123456789", n + 1, n + 1) = last
         IN  10 * ToInt(Sub(digits, 1, Len(digits) - 1)) + d

\* The digits of the r'=\s*(\d+)' match that starts at position i of the line
\* ("" when none starts there).
NumericAt(original, i) ==
    LET starts == {q \in M(EqualsRe, original, {i}) : M(NumberRe, original, {q}) # {}}
    IN  IF starts = {} THEN ""
        ELSE Sub(original, Max(starts), Max(M(NumberRe, original, starts)) - 1)

\* re.search(r'=\s*(\d+)', original).group(1): the leftmost match ("" when
\* the line has none)
numeric_match(original) ==
    LET at == {i \in 1..Len(original) : NumericAt(original, i) # ""}
    IN  IF at = {} THEN "" ELSE NumericAt(original, Min(at))

\* What the loop of check_non_parameterized_where does on one line, given
\* in_where before it: in_where after it, and the blockers it appends.
WhereStep(in_where, i, line) ==
    LET stripped == Upper(Strip(line))
        original == Strip(line)
        entered == in_where \/ Contains("WHERE", stripped)
        digits == numeric_match(original)
    IN  IF SqlCommentLine(stripped) THEN [in_where |-> in_where, blockers |-> <<>>]
        ELSE IF ~entered THEN [in_where |-> FALSE, blockers |-> <<>>]
        ELSE IF HasTerminator(stripped) THEN [in_where |-> FALSE, blockers |-> <<>>]
        ELSE [in_where |-> TRUE,
              blockers |->
                (IF Searches(StringLiteralRe, original)
                 THEN <<Diag("sql-nonparam-where", "BLOCK", i, "string")>> ELSE <<>>)
                  \o (IF digits # "" /\ ToInt(digits) > 1
                      THEN <<Diag("sql-nonparam-where", "BLOCK", i, digits)>>
                      ELSE <<>>)]

\* in_where before line i of the text
RECURSIVE InWhereBefore(_, _)
InWhereBefore(lines, i) ==
    IF i <= 1 THEN FALSE
    ELSE WhereStep(InWhereBefore(lines, i - 1), i - 1, lines[i - 1]).in_where

check_non_parameterized_where(text) ==
    LET lines == SplitLines(text)
    IN  ConcatAll([i \in 1..Len(lines) |->
                     WhereStep(InWhereBefore(lines, i), i, lines[i]).blockers])

\* main blocking on any finding, warnings included
sql_exit_code_AnyFinding(warnings, blockers) ==
    IF Len(warnings) + Len(blockers) > 0 THEN 2 ELSE 0

\* the status main ends with, given what it printed
sql_exit_code(warnings, blockers) == IF Len(blockers) > 0 THEN 2 ELSE 0

\* main without its test for the infrastructure marker in the path
sql_main_AnySqlPath(input) ==
    IF input.k = "garbage" THEN Exit(Unset, Unset, "None", <<>>, <<>>, 0)
    ELSE LET x == extract_file_and_content(input)
             path == x.file_path
             text == x.content
         IN  IF x.raised THEN Raise(path, text, "None")
             ELSE IF ~IsStr(path) THEN Raise(path, text, "None")
             ELSE IF ~EndsWith(path.s, ".sql")
             THEN Exit(path, text, "None", <<>>, <<>>, 0)
             ELSE IF Falsy(text) THEN Exit(path, text, "None", <<>>, <<>>, 0)
             ELSE IF ~IsStr(text) THEN Raise(path, text, "None")
             ELSE LET warnings == check_header_comment(text.s)
                                    \o check_parameter_documentation(text.s)
                      blockers == check_string_concatenation(text.s)
                                    \o check_non_parameterized_where(text.s)
                  IN  Exit(path, text, "None", <<>>, warnings \o blockers,
                           sql_exit_code(warnings, blockers))

sql_main(input) ==
    IF input.k = "garbage" THEN Exit(Unset, Unset, "None", <<>>, <<>>, 0)
    ELSE LET x == extract_file_and_content(input)
             path == x.file_path
             text == x.content
         IN  IF x.raised THEN Raise(path, text, "None")
             ELSE IF ~IsStr(path) THEN Raise(path, text, "None")
             ELSE IF ~EndsWith(path.s, ".sql")
             THEN Exit(path, text, "None", <<>>, <<>>, 0)
             ELSE IF ~Contains("Infrastructure", path.s)
                       /\ ~Contains("infrastructure", path.s)
             THEN Exit(path, text, "None", <<>>, <<>>, 0)
             ELSE IF Falsy(text) THEN Exit(path, text, "None", <<>>, <<>>, 0)
             ELSE IF ~IsStr(text) THEN Raise(path, text, "None")
             ELSE LET warnings == check_header_comment(text.s)
                                    \o check_parameter_documentation(text.s)
                      blockers == check_string_concatenation(text.s)
                                    \o check_non_parameterized_where(text.s)
                  IN  Exit(path, text, "None", <<>>, warnings \o blockers,
                           sql_exit_code(warnings, blockers))

---------------------------------------------------------------------------
(* serilog_enforcer_hook.py                                                *)

PII_PATTERNS ==
    <<"password", "passwd", "token", "secret", "creditcard", "credit_card",
      "creditcardnumber", "ssn", "socialsecurity", "social_security",
      "taxfilenumber", "tfn", "bankaccount", "bank_account", "apikey", "api_key",
      "privatekey", "private_key">>

\* LOGGER_CALL_PATTERN is compiled with re.IGNORECASE: it is written here in
\* lower case and matched on the lowered line.
LogLevelRe ==
    Alt(<<Lit("information"), Lit("warning"), Lit("error"), Lit("critical"),
          Lit("debug"), Lit("trace"), Lit("fatal")>>)
LOGGER_CALL_PATTERN ==
    Cat(<<Opt(Lit("_")), Lit("log"), Opt(Lit("ger")), Star(SpaceRe), Lit("."),
          Star(SpaceRe),
          Alt(<<Cat(<<Lit("log"), Opt(LogLevelRe)>>), LogLevelRe, Lit("verbose"),
                Lit("write")>>),
          Star(SpaceRe), Lit("(")>>)

INTERPOLATION_PATTERN ==
    Alt(<<Cat(<<Lit("("), Star(SpaceRe), Lit("$\"")>>),
          Cat(<<Lit("("), Star(SpaceRe), Lit("$@\"")>>),
          Cat(<<Lit(","), Star(SpaceRe), Lit("$\"")>>),
          Cat(<<Lit(","), Star(SpaceRe), Lit("$@\"")>>)>>)

\* LOGGER_CALL_PATTERN.search(line)
IsLoggerCall(line) == Searches(LOGGER_CALL_PATTERN, Lower(line))

\* a line the logging checks skip as a comment
CsCommentLine(stripped) ==
    \/ StartsWith(stripped, "//") \/ StartsWith(stripped, "///")
    \/ StartsWith(stripped, "/*") \/ StartsWith(stripped, "*")

has_logger_usage(text) ==
    LET lower == Lower(text)
    IN  Contains("log", lower)
          /\ (\/ Contains("_logger.", lower) \/ Contains("logger.", lower)
              \/ Contains("log.", lower) \/ Contains("Log.", text))

\* what the loop of check_string_interpolation appends at line i
\* check_string_interpolation numbering the lines one too high
InterpolationOnLine_OffByOne(lines, i) ==
    IF CsCommentLine(Strip(lines[i])) THEN <<>>
    ELSE IF ~IsLoggerCall(lines[i]) THEN <<>>
    ELSE IF Searches(INTERPOLATION_PATTERN, lines[i])
    THEN <<Diag("log-interpolation", "WARN", i + 1, "")>>
    ELSE IF i < Len(lines) /\ Searches(INTERPOLATION_PATTERN, lines[i + 1])
    THEN <<Diag("log-interpolation", "WARN", i + 2, "multi-line")>>
    ELSE <<>>

InterpolationOnLine(lines, i) ==
    IF CsCommentLine(Strip(lines[i])) THEN <<>>
    ELSE IF ~IsLoggerCall(lines[i]) THEN <<>>
    ELSE IF Searches(INTERPOLATION_PATTERN, lines[i])
    THEN <<Diag("log-interpolation", "WARN", i, "")>>
    ELSE IF i < Len(lines) /\ Searches(INTERPOLATION_PATTERN, lines[i + 1])
    THEN <<Diag("log-interpolation", "WARN", i + 1, "multi-line")>>
    ELSE <<>>

check_string_interpolation(text) ==
    LET lines == SplitLines(text)
    IN  ConcatAll([i \in 1..Len(lines) |-> InterpolationOnLine(lines, i)])

\* re.findall(r'\{(\w+)\}', line), in the order of the line
TemplateParams(line) ==
    LET at == {i \in 1..Len(line) :
                 /\ SubSeq(line, i, i) = "{"
                 /\ IsWordAt(line, i + 1)
                 /\ Char(line, Max(M(Plus(WordRe), line, {i + 1}))) = "}"}
        nth[n \in 1..Cardinality(at)] ==
            CHOOSE i \in at : Cardinality({j \in at : j < i}) = n - 1
    IN  [n \in 1..Cardinality(at) |->
           Sub(line, nth[n] + 1, Max(M(Plus(WordRe), line, {nth[n] + 1})) - 1)]

\* re.findall(r'\b(\w+)\s*:', line), in the order of the line
NamedArgs(line) ==
    LET after == Cat(<<Star(SpaceRe), Lit(":")>>)
        at == {i \in 1..Len(line) :
                 /\ IsWordAt(line, i) /\ ~IsWordAt(line, i - 1)
                 /\ M(after, line, {Max(M(Plus(WordRe), line, {i}))}) # {}}
        nth[n \in 1..Cardinality(at)] ==
            CHOOSE i \in at : Cardinality({j \in at : j < i}) = n - 1
    IN  [n \in 1..Cardinality(at) |->
           Sub(line, nth[n], Max(M(Plus(WordRe), line, {nth[n]})) - 1)]

IsPii(name) == \E k \in 1..Len(PII_PATTERNS) : Contains(PII_PATTERNS[k], Lower(name))

\* the warnings for the placeholders and named arguments of one line
PiiOnLine(i, line) ==
    LET params == TemplateParams(line)
        named == NamedArgs(line)
    IN  ConcatAll([n \in 1..Len(params) |->
                     IF IsPii(params[n])
                     THEN <<Diag("log-sensitive-data", "WARN", i, params[n])>>
                     ELSE <<>>])
          \o ConcatAll([n \in 1..Len(named) |->
                          IF IsPii(named[n])
                          THEN <<Diag("log-sensitive-data", "WARN", i, named[n])>>
                          ELSE <<>>])

\* the loop of check_pii_parameters without its "if not in_log_call: continue"
PiiStep_Ungated(st, i, line) ==
    IF CsCommentLine(Strip(line))
    THEN [in_log_call |-> st.in_log_call, brace_depth |-> st.brace_depth,
          examined |-> FALSE, warnings |-> <<>>]
    ELSE LET call == IsLoggerCall(line)
             depth0 == IF call THEN 0 ELSE st.brace_depth
             depth == depth0 + Count(line, "(") - Count(line, ")")
         IN  [in_log_call |-> depth > 0, brace_depth |-> depth,
              examined |-> TRUE, warnings |-> PiiOnLine(i, line)]

\* the loop of check_pii_parameters without its "if brace_depth <= 0"
PiiStep_NeverLeaves(st, i, line) ==
    IF CsCommentLine(Strip(line))
    THEN [in_log_call |-> st.in_log_call, brace_depth |-> st.brace_depth,
          examined |-> FALSE, warnings |-> <<>>]
    ELSE LET call == IsLoggerCall(line)
             inside == st.in_log_call \/ call
             depth0 == IF call THEN 0 ELSE st.brace_depth
             depth == depth0 + Count(line, "(") - Count(line, ")")
         IN  IF ~inside
             THEN [in_log_call |-> FALSE, brace_depth |-> st.brace_depth,
                   examined |-> FALSE, warnings |-> <<>>]
             ELSE [in_log_call |-> TRUE, brace_depth |-> depth,
                   examined |-> TRUE, warnings |-> PiiOnLine(i, line)]

\* What the loop of check_pii_parameters does on one line, given in_log_call
\* and brace_depth before it.
PiiStep(st, i, line) ==
    IF CsCommentLine(Strip(line))
    THEN [in_log_call |-> st.in_log_call, brace_depth |-> st.brace_depth,
          examined |-> FALSE, warnings |-> <<>>]
    ELSE LET call == IsLoggerCall(line)
             inside == st.in_log_call \/ call
             depth0 == IF call THEN 0 ELSE st.brace_depth
             depth == depth0 + Count(line, "(") - Count(line, ")")
         IN  IF ~inside
             THEN [in_log_call |-> FALSE, brace_depth |-> st.brace_depth,
                   examined |-> FALSE, warnings |-> <<>>]
             ELSE [in_log_call |-> depth > 0, brace_depth |-> depth,
                   examined |-> TRUE, warnings |-> PiiOnLine(i, line)]

\* the state of the loop after line i (before the first line for i = 0)
RECURSIVE PiiAfter(_, _)
PiiAfter(lines, i) ==
    IF i = 0
    THEN [in_log_call |-> FALSE, brace_depth |-> 0, examined |-> FALSE,
          warnings |-> <<>>]
    ELSE PiiStep(PiiAfter(lines, i - 1), i, lines[i])

check_pii_parameters(text) ==
    LET lines == SplitLines(text)
    IN  ConcatAll([i \in 1..Len(lines) |-> PiiAfter(lines, i).warnings])

serilog_main(input) ==
    IF input.k = "garbage" THEN Exit(Unset, Unset, "None", <<>>, <<>>, 0)
    ELSE LET x == extract_file_and_content(input)
             path == x.file_path
             text == x.content
         IN  IF x.raised THEN Raise(path, text, "None")
             ELSE IF ~IsStr(path) THEN Raise(path, text, "None")
             ELSE IF ~EndsWith(path.s, ".cs")
             THEN Exit(path, text, "None", <<>>, <<>>, 0)
             ELSE IF Falsy(text) THEN Exit(path, text, "None", <<>>, <<>>, 0)
             ELSE IF ~IsStr(text) THEN Raise(path, text, "None")
             ELSE IF ~has_logger_usage(text.s)
             THEN Exit(path, text, "None", <<>>, <<>>, 0)
             ELSE Exit(path, text, "None", <<>>,
                       check_string_interpolation(text.s)
                         \o check_pii_parameters(text.s), 0)

---------------------------------------------------------------------------
(* openapi_contract_hook.py                                                *)

is_endpoint_file(path) ==
    LET basename == Basename(path)
    IN  Contains("Endpoint", basename) /\ EndsWith(basename, ".cs")

check_with_name(text) ==
    IF ~Contains(".WithName(", text)
    THEN <<Diag("contract-annotation-name", "WARN", 0, "")>> ELSE <<>>

check_produces(text) ==
    IF ~Contains(".Produces<", text) /\ ~Contains(".Produces(", text)
    THEN <<Diag("contract-annotation-produces", "WARN", 0, "")>> ELSE <<>>

check_with_tags(text) ==
    IF ~Contains(".WithTags(", text)
    THEN <<Diag("contract-annotation-tags", "WARN", 0, "")>> ELSE <<>>

check_summary_or_description(text) ==
    IF ~Contains(".WithSummary(", text) /\ ~Contains(".WithDescription(", text)
    THEN <<Diag("contract-annotation-summary", "WARN", 0, "")>> ELSE <<>>

check_require_authorization(text) ==
    IF ~Contains(".RequireAuthorization(", text)
    THEN <<Diag("contract-annotation-authorization", "WARN", 0, "")>> ELSE <<>>

\* r'\(\s*\w*(Command|Query)\s+\w+\s*[,)]'
DirectParamRe ==
    Cat(<<Lit("("), Star(SpaceRe), Star(WordRe), Alt(<<Lit("Command"), Lit("Query")>>),
          Plus(SpaceRe), Plus(WordRe), Star(SpaceRe), Cls({",", ")"})>>)

check_direct_command_query_parameter(text) ==
    IF Searches(DirectParamRe, text)
    THEN <<Diag("direct-domain-param", "WARN", 0, "")>> ELSE <<>>

openapi_main(input) ==
    IF input.k = "garbage" THEN Exit(Unset, Unset, "None", <<>>, <<>>, 0)
    ELSE LET x == extract_file_and_content(input)
             path == x.file_path
             text == x.content
         IN  IF x.raised THEN Raise(path, text, "None")
             ELSE IF ~IsStr(path) THEN Raise(path, text, "None")
             ELSE IF ~is_endpoint_file(path.s)
             THEN Exit(path, text, "None", <<>>, <<>>, 0)
             ELSE IF Falsy(text) THEN Exit(path, text, "None", <<>>, <<>>, 0)
             ELSE IF ~IsStr(text) THEN Raise(path, text, "None")
             ELSE Exit(path, text, "None", <<>>,
                       check_with_name(text.s) \o check_produces(text.s)
                         \o check_with_tags(text.s)
                         \o check_summary_or_description(text.s)
                         \o check_require_authorization(text.s)
                         \o check_direct_command_query_parameter(text.s), 0)

---------------------------------------------------------------------------
(* coding_standards_hook.py                                                *)

\* r'\bvar\s+[a-zA-Z_]'
VarRe ==
    Cat(<<WordBoundary, Lit("var"), Plus(SpaceRe),
          Cls(CharsOf(LowerAlpha) \cup CharsOf(UpperAlpha) \cup {"_"})>>)

VarOnLine(i, line) ==
    LET stripped == LStrip(line)
    IN  IF \/ StartsWith(stripped, "//") \/ StartsWith(stripped, "///")
           \/ StartsWith(stripped, "/*") \/ StartsWith(stripped, "*")
        THEN <<>>
        ELSE IF StartsWith(stripped, "\"") \/ StartsWith(stripped, "'") THEN <<>>
        ELSE IF Searches(VarRe, line)
        THEN <<Diag("implicit-type-usage", "WARN", i, "var")>>
        ELSE <<>>

check_var_usage(text) ==
    LET lines == SplitLines(text)
    IN  ConcatAll([i \in 1..Len(lines) |-> VarOnLine(i, lines[i])])

\* modifier\s+
Modifier(word) == Cat(<<Lit(word), Plus(SpaceRe)>>)

\* r'^public\s+(sealed\s+)?(partial\s+)?(static\s+)?(class|record|struct|interface|enum)\s+'
TypeDeclRe ==
    Cat(<<Modifier("public"), Opt(Modifier("sealed")), Opt(Modifier("partial")),
          Opt(Modifier("static")),
          Alt(<<Lit("class"), Lit("record"), Lit("struct"), Lit("interface"),
                Lit("enum")>>),
          Plus(SpaceRe)>>)

\* r'^public\s+(sealed\s+)?(static\s+)?(override\s+)?(virtual\s+)?(async\s+)?[\w<>\[\]?,\s]+\s+\w+\s*\('
MethodDeclRe ==
    Cat(<<Modifier("public"), Opt(Modifier("sealed")), Opt(Modifier("static")),
          Opt(Modifier("override")), Opt(Modifier("virtual")), Opt(Modifier("async")),
          Plus(Cls(WordChars \cup SpaceChars \cup {"<", ">", "[", "]", "?", ","})),
          Plus(SpaceRe), Plus(WordRe), Star(SpaceRe), Lit("(")>>)

\* The backward scan of check_xml_docs from line i: a documentation opener
\* among the four lines above, reached over documentation, blank and
\* attribute lines only.
HasDoc(lines, i) ==
    LET opener(j) == \/ StartsWith(Strip(lines[j]), "/// <summary>")
                     \/ StartsWith(Strip(lines[j]), "/// <inheritdoc")
        passed(j) == \/ StartsWith(Strip(lines[j]), "///")
                     \/ Strip(lines[j]) = ""
                     \/ StartsWith(Strip(lines[j]), "[")
        low == IF i - 4 < 1 THEN 1 ELSE i - 4
    IN  \E j \in low..(i - 1) :
           opener(j) /\ \A k \in (j + 1)..(i - 1) : opener(k) \/ passed(k)

XmlDocsOnLine(lines, i) ==
    LET stripped == Strip(lines[i])
    IN  (IF Matches(TypeDeclRe, stripped) /\ ~HasDoc(lines, i)
         THEN <<Diag("missing-doc", "WARN", i, "type")>> ELSE <<>>)
          \o (IF /\ Matches(MethodDeclRe, stripped)
                 /\ ~(Contains("{", stripped) /\ Contains("get;", stripped))
                 /\ ~HasDoc(lines, i)
              THEN <<Diag("missing-doc", "WARN", i, "method")>> ELSE <<>>)

check_xml_docs(text) ==
    LET lines == SplitLines(text)
    IN  ConcatAll([i \in 1..Len(lines) |-> XmlDocsOnLine(lines, i)])

\* r'^(public|private|protected|internal)\s+.*\basync\s+\w+.*\s+(\w+)\s*\(([^)]*)\)'
\* as the sequence of its parts; every part but the last is followed by a
\* choice of how far it extends, which the matcher makes longest first.
AsyncParts ==
    <<Cat(<<Alt(<<Lit("public"), Lit("private"), Lit("protected"), Lit("internal")>>),
            Plus(SpaceRe)>>),
      Star(AnyChar),
      Cat(<<WordBoundary, Lit("async"), Plus(SpaceRe)>>),
      Plus(WordRe),
      Star(AnyChar),
      Plus(SpaceRe),
      Plus(WordRe),
      Cat(<<Star(SpaceRe), Lit("(")>>),
      Star(NotCls({")"})),
      Lit(")")>>

\* The position each part of parts ends at in the match the backtracking
\* matcher finds from position p (<<>> when there is no match): part k
\* extends as far as it can with the parts after it still matching.
RECURSIVE GreedyEnds(_, _, _, _)
GreedyEnds(parts, k, s, p) ==
    IF k > Len(parts) THEN <<>>
    ELSE LET e == GreedyEnd(parts[k], Cat(SubSeq(parts, k + 1, Len(parts))), s, {p})
         IN  IF e = 0 THEN <<>> ELSE <<e>> \o GreedyEnds(parts, k + 1, s, e)

CancellationOnLine(i, line) ==
    LET stripped == Strip(line)
        ends == GreedyEnds(AsyncParts, 1, stripped, 1)
    IN  IF Len(ends) < Len(AsyncParts) THEN <<>>
        ELSE LET method_name == Sub(stripped, ends[6], ends[7] - 1)
                 params == Sub(stripped, ends[8], ends[9] - 1)
             IN  IF ~Contains("CancellationToken", params)
                 THEN <<Diag("missing-cancellation-param", "WARN", i, method_name)>>
                 ELSE <<>>

check_cancellation_token(text) ==
    LET lines == SplitLines(text)
    IN  ConcatAll([i \in 1..Len(lines) |-> CancellationOnLine(i, lines[i])])

\* r'^public\s+(sealed\s+)?(partial\s+)?(class|record|struct)\s+(\w+)': the
\* kinds of group 3, and what follows group 1
SEALED_RECORD_KINDS == <<"class", "record", "struct">>
KindAndName(kind) == Cat(<<Lit(kind), Plus(SpaceRe), Plus(WordRe)>>)
AfterSealed ==
    Cat(<<Opt(Modifier("partial")),
          Alt([k \in 1..Len(SEALED_RECORD_KINDS) |-> KindAndName(SEALED_RECORD_KINDS[k])])>>)

\* The match of the pattern on a stripped line: whether there is one, and
\* its groups 1 (as is_sealed), 3 and 4.
SealedRecordMatch(stripped) ==
    LET afterPublic == M(Modifier("public"), stripped, {1})
        afterSealed == M(Modifier("sealed"), stripped, afterPublic)
        is_sealed == M(AfterSealed, stripped, afterSealed) # {}
        from == IF is_sealed THEN afterSealed ELSE afterPublic
        atKind == M(Opt(Modifier("partial")), stripped, from)
        kinds == {k \in 1..Len(SEALED_RECORD_KINDS) :
                    M(KindAndName(SEALED_RECORD_KINDS[k]), stripped, atKind) # {}}
    IN  IF kinds = {} THEN [matched |-> FALSE, is_sealed |-> FALSE, kind |-> "",
                            type_name |-> ""]
        ELSE LET kind == SEALED_RECORD_KINDS[Min(kinds)]
                 starts == {q \in M(Modifier(kind), stripped, atKind) :
                              IsWordAt(stripped, q)}
                 q == Max(starts)
             IN  [matched |-> TRUE, is_sealed |-> is_sealed, kind |-> kind,
                  type_name |-> Sub(stripped, q, Max(M(Plus(WordRe), stripped, {q})) - 1)]

SealedRecordOnLine(i, line) ==
    LET m == SealedRecordMatch(Strip(line))
    IN  IF /\ m.matched
           /\ (EndsWith(m.type_name, "Command") \/ EndsWith(m.type_name, "Query"))
           /\ (m.kind # "record" \/ ~m.is_sealed)
        THEN <<Diag("naming-shape-mismatch", "WARN", i, m.type_name)>>
        ELSE <<>>

check_sealed_record(text) ==
    LET lines == SplitLines(text)
    IN  ConcatAll([i \in 1..Len(lines) |-> SealedRecordOnLine(i, lines[i])])

coding_standards_main(input) ==
    IF input.k = "garbage" THEN Exit(Unset, Unset, "None", <<>>, <<>>, 0)
    ELSE LET x == extract_file_and_content(input)
             path == x.file_path
             text == x.content
         IN  IF x.raised THEN Raise(path, text, "None")
             ELSE IF ~IsStr(path) THEN Raise(path, text, "None")
             ELSE IF ~EndsWith(path.s, ".cs")
             THEN Exit(path, text, "None", <<>>, <<>>, 0)
             ELSE IF Falsy(text) THEN Exit(path, text, "None", <<>>, <<>>, 0)
             ELSE IF ~IsStr(text) THEN Raise(path, text, "None")
             ELSE Exit(path, text, "None", <<>>,
                       check_var_usage(text.s) \o check_xml_docs(text.s)
                         \o check_cancellation_token(text.s)
                         \o check_sealed_record(text.s), 0)

---------------------------------------------------------------------------
(* The edit descriptions the hooks are run on.                             *)

WriteOf(path, text) ==
    JObj([tool_name |-> JStr("Write"),
          tool_input |-> JObj([file_path |-> JStr(path), content |-> JStr(text)])])
EditOf(path, text) ==
    JObj([tool_name |-> JStr("Edit"),
          tool_input |-> JObj([file_path |-> JStr(path), new_string |-> JStr(text)])])
MultiEditOf(path, frags) ==
    JObj([tool_name |-> JStr("MultiEdit"),
          tool_input |->
            JObj([file_path |-> JStr(path),
                  edits |-> JList([i \in 1..Len(frags) |->
                                     JObj([new_string |-> JStr(frags[i])])])])])

\* the texts of 1..MaxLines lines over a set of lines
TextsOver(lines) == {Join(ls, "\n") : ls \in SeqsUpTo(lines, MaxLines)}

\* Descriptions that are not well formed, around a path and a text that a
\* well-formed description of the hook would be checked on.
Malformed(path, text) ==
    LET input(p, c) == JObj([file_path |-> p, content |-> c])
        write(ti) == JObj([tool_name |-> JStr("Write"), tool_input |-> ti])
        multi(e) == JObj([tool_name |-> JStr("MultiEdit"),
                          tool_input |-> JObj([file_path |-> JStr(path), edits |-> e])])
    IN  {NotJson,
         \* the top level is not an object
         JList(<<>>), JNull, JNum(5), JStr(text), JBool(TRUE),
         \* no tool_input, no tool_name
         JObj(<<>>), JObj([tool_name |-> JStr("Write")]),
         JObj([tool_input |-> input(JStr(path), JStr(text))]),
         \* tool_input is not an object
         write(JStr(text)), write(JNull), write(JList(<<>>)), write(JNum(0)),
         \* the path is missing or is not a string
         write(JObj([content |-> JStr(text)])),
         write(input(JNull, JStr(text))), write(input(JNum(5), JStr(text))),
         write(input(JList(<<>>), JStr(text))),
         \* the operation kind is unknown or is not a string
         JObj([tool_name |-> JStr("NotebookEdit"),
               tool_input |-> input(JStr(path), JStr(text))]),
         JObj([tool_name |-> JNum(5), tool_input |-> input(JStr(path), JStr(text))]),
         \* the content is missing or is not a string
         write(JObj([file_path |-> JStr(path)])),
         write(input(JStr(path), JNull)), write(input(JStr(path), JNum(0))),
         write(input(JStr(path), JNum(5))),
         write(input(JStr(path), JList(<<JStr(text)>>))),
         \* MultiEdit whose edits, or their entries, are not what is expected
         multi(JList(<<JStr(text)>>)), multi(JList(<<JNull>>)),
         multi(JList(<<JObj([new_string |-> JStr(text)]), JNum(5)>>)),
         multi(JList(<<JObj([new_string |-> JNum(5)])>>)),
         multi(JList(<<JObj(<<>>)>>)),
         multi(JStr(text)), multi(JStr("")), multi(JNull), multi(JNum(5)),
         multi(JObj(<<>>)), multi(JObj([new_string |-> JStr(text)])),
         JObj([tool_name |-> JStr("MultiEdit"),
               tool_input |-> JObj([file_path |-> JStr(path)])])}

\* Well-formed descriptions of each operation kind: every text on every
\* path of paths, and the fragments on the other paths, as an Edit and as
\* the fragments of a MultiEdit.
WellFormed(paths, texts, otherPaths, frags) ==
    {WriteOf(p, t) : p \in paths, t \in texts}
      \cup {WriteOf(p, t) : p \in otherPaths, t \in frags}
      \cup {EditOf(p, t) : p \in paths \cup otherPaths, t \in frags}
      \cup {MultiEditOf(p, fs) : p \in paths, fs \in SeqsUpTo(frags, MaxEdits)}
      \cup {MultiEditOf(p, <<>>) : p \in paths}

\* namespaces of 1..MaxSegs segments
Segments == {"Foo", "Infrastructure", "InfrastructureHelpers", "System", "Data"}
Namespaces ==
    {Join(segs, ".") : segs \in SeqsUpTo(Segments, MaxSegs)}
      \cup {"Dapper", "Microsoft.AspNetCore.Mvc", "System.Text.Json",
            "Foo.Repositories", "Foo.Persistence.Sql"}

LayerPaths ==
    {"src/App.Domain/Order.cs", "src/App.Application/Handler.cs",
     "src/App.Infrastructure/Repo.cs", "src/App.Api/OrderEndpoint.cs",
     "src\\App.API\\Program.cs", "src/Domain/Application/Rules.cs",
     "src/Shared/Util.cs"}
LayerLines ==
    {"using Foo.Infrastructure.Data;", "using Foo.InfrastructureHelpers ;",
     "  using Db = System.Data;", "using Foo.Repositories;",
     "using System;", "namespace Foo.Infrastructure;",
     "// using Dapper;", "var x = 1;"}
LayerTexts ==
    {""} \cup {"using " \o ns \o ";" : ns \in Namespaces} \cup TextsOver(LayerLines)
LayerInputs ==
    WellFormed(LayerPaths, LayerTexts, {"src/App.Domain/notes.txt", ""},
               {"using Dapper;", "using Foo.Infrastructure;", ""})
      \cup Malformed("src/App.Domain/Order.cs", "using Dapper;")

SqlLines ==
    {"-- @Id: the key", "SELECT * FROM t", "WHERE status = 0", "WHERE status = 2",
     "AND name = 'bob'", "WHERE active = 1 AND status = 12", "AND is_deleted = 2",
     "WHERE id = @Id",
     "WHERE id = 5 ORDER BY x", "ORDER BY x", "  AND code = 7",
     "SET q = 'a' + @p", "SELECT concat (a, b)", "-- WHERE x = 5"}
SqlTexts ==
    {"", "\n", "/* q */\nSELECT @@ROWCOUNT", "x = String.Format(q)",
     "WHERE a = 3 AND b = 'c' + d"}
      \cup TextsOver(SqlLines)
SqlInputs ==
    WellFormed({"src/App.Infrastructure/Sql/get.sql"}, SqlTexts,
               {"db/infrastructure/q.sql", "db/queries/q.sql",
                "src/App.Infrastructure/Repo.cs", ""},
               {"WHERE status = 2", "SELECT 1", "SET q = 'a' + @p", ""})
      \cup Malformed("src/App.Infrastructure/Sql/get.sql", "WHERE status = 2")

LogLines ==
    {"_logger.LogInformation(\"Order {OrderId}\", id);",
     "_logger.LogInformation($\"Order {id}\");",
     "  Log.Error(",
     "    ex, $\"Failed {Password}\");",
     "    \"Card {CreditCard}\", apiKey: key);",
     "// logger.LogDebug($\"x\");",
     "var s = Wrap(($\"{Token}\");",
     "catalog.Add(secret: s",
     "return x;"}
LogTexts == {"", "logger.Write(\"{Ssn}\");"} \cup TextsOver(LogLines)
LogInputs ==
    WellFormed({"src/App.Api/OrderService.cs"}, LogTexts, {"docs/notes.txt", ""},
               {"_logger.LogInformation($\"Order {id}\");", "  Log.Error(",
                "    ex, $\"Failed {Password}\");", ""})
      \cup Malformed("src/App.Api/OrderService.cs",
                     "_logger.LogInformation($\"Order {id}\");")

\* public declarations of every modifier, kind and name
DeclModifiers == {"", "sealed ", "partial ", "sealed partial ", "static ", "abstract "}
DeclKinds == {"class", "record", "struct", "interface", "record struct"}
DeclNames == {"FooCommand", "BarQuery", "FooCommandHandler", "Order"}
Declarations ==
    {"public " \o m \o k \o " " \o n : m \in DeclModifiers, k \in DeclKinds,
                                       n \in DeclNames}
CsLines ==
    {"var x = 1;", "/// <summary>", "[Serializable]", "public class FooCommand",
     "  public sealed record BarQuery(int Id);",
     "public async Task Run(int id)",
     "public async Task<int> Run(CancellationToken ct)",
     "internal record FooQuery;", "// public class FooCommand"}
CsTexts == {""} \cup Declarations \cup TextsOver(CsLines)
CsInputs ==
    WellFormed({"src/App.Application/Orders.cs"}, CsTexts, {"docs/notes.txt", ""},
               {"public class FooCommand", "var x = 1;", "/// <summary>", ""})
      \cup Malformed("src/App.Application/Orders.cs", "public class FooCommand")

\* endpoint texts: a parameter list, then any of the builder calls
ParameterLists ==
    {"app.MapGet(\"/o\", () =>", "app.MapPost(\"/o\", (OrderCommand command) =>",
     "app.MapPost(\"/o\", (int id, OrderQuery query) =>",
     "app.MapPost(\"/o\", ( OrderQuery q, int id) =>"}
BuilderCalls ==
    <<".WithName(\"Op\")", ".Produces<Order>(200)", ".Produces(404)",
      ".WithTags(\"Orders\")", ".WithSummary(\"s\")", ".WithDescription(\"d\")",
      ".RequireAuthorization()">>
RECURSIVE Chain(_, _)
Chain(S, k) ==
    IF k > Len(BuilderCalls) THEN ""
    ELSE (IF k \in S THEN "\n  " \o BuilderCalls[k] ELSE "") \o Chain(S, k + 1)
EndpointTexts ==
    {"", "(OrderCommand command)"}
      \cup {pl \o Chain(S, 1) : pl \in ParameterLists,
                                S \in SUBSET (1..Len(BuilderCalls))}
EndpointInputs ==
    WellFormed({"src/App.Api/OrderEndpoint.cs"}, EndpointTexts,
               {"src/Endpoints/Order.cs", "OrderEndpoints.cs",
                "src/App.Api/OrderEndpoint.txt", ""},
               {"(OrderCommand command)", ".WithName(\"Op\")", ""})
      \cup Malformed("src/App.Api/OrderEndpoint.cs", "(OrderCommand command)")

---------------------------------------------------------------------------
(* The processes.  A run is one invocation of one hook on one description; *)
(* nothing is kept from one invocation to the next.                        *)

Hooks ==
    {"coding_standards", "layer_dependency", "openapi_contract", "serilog_enforcer",
     "sql_format"}

Inputs(h) ==
    CASE h = "coding_standards" -> CsInputs
      [] h = "layer_dependency" -> LayerInputs
      [] h = "openapi_contract" -> EndpointInputs
      [] h = "serilog_enforcer" -> LogInputs
      [] h = "sql_format" -> SqlInputs

\* Only the SQL hook iterates over a set of strings, so the seed is varied
\* for it alone.
SeedsOf(h) == IF h = "sql_format" THEN HashSeeds ELSE {"a"}

\* no earlier invocation
NoRun == [k |-> "none"]

Init ==
    /\ hook \in Hooks
    /\ stdin \in Inputs(hook)
    /\ pc = "start"
    /\ file_path = Unset
    /\ content = Unset
    /\ layer = "None"
    /\ usings = <<>>
    /\ diagnostics = <<>>
    /\ exit_code = 0
    /\ raised = FALSE
    /\ hash_seed \in SeedsOf(hook)
    /\ run = 1
    /\ first = NoRun

\* The process ends with what main computed.
Finish(r) ==
    /\ pc' = "exited"
    /\ file_path' = r.file_path
    /\ content' = r.content
    /\ layer' = r.layer
    /\ usings' = r.usings
    /\ diagnostics' = r.diagnostics
    /\ exit_code' = r.exit_code
    /\ raised' = r.raised
    /\ UNCHANGED <<hook, stdin, hash_seed, run, first>>

CodingStandardsMain ==
    /\ pc = "start"
    /\ hook = "coding_standards"
    /\ Finish(coding_standards_main(stdin))

LayerDependencyMain ==
    /\ pc = "start"
    /\ hook = "layer_dependency"
    /\ Finish(layer_main(stdin))

OpenApiContractMain ==
    /\ pc = "start"
    /\ hook = "openapi_contract"
    /\ Finish(openapi_main(stdin))

SerilogEnforcerMain ==
    /\ pc = "start"
    /\ hook = "serilog_enforcer"
    /\ Finish(serilog_main(stdin))

SqlFormatMain ==
    /\ pc = "start"
    /\ hook = "sql_format"
    /\ Finish(sql_main(stdin))

Next ==
    \/ CodingStandardsMain
    \/ LayerDependencyMain
    \/ OpenApiContractMain
    \/ SerilogEnforcerMain
    \/ SqlFormatMain

Spec == Init /\ [][Next]_vars

\* The same hook is invoked a second time, as a new process with a new hash
\* seed, on another description of the same (path, text), or on the same
\* description when it gave no path and text; nothing of the first process
\* is kept but the history.
Reencodings ==
    IF IsStr(file_path) /\ IsStr(content)
    THEN IF stdin = WriteOf(file_path.s, content.s)
         THEN {EditOf(file_path.s, content.s)}
         ELSE {WriteOf(file_path.s, content.s)}
    ELSE {stdin}

Reinvoke ==
    /\ pc = "exited"
    /\ run = 1
    /\ first' = [k |-> "ran", stdin |-> stdin, file_path |-> file_path,
                 content |-> content, diagnostics |-> diagnostics,
                 exit_code |-> exit_code, raised |-> raised,
                 hash_seed |-> hash_seed]
    /\ run' = 2
    /\ stdin' \in Reencodings
    /\ hash_seed' \in SeedsOf(hook)
    /\ pc' = "start"
    /\ file_path' = Unset
    /\ content' = Unset
    /\ layer' = "None"
    /\ usings' = <<>>
    /\ diagnostics' = <<>>
    /\ exit_code' = 0
    /\ raised' = FALSE
    /\ UNCHANGED hook

NextTwice ==
    \/ Next
    \/ Reinvoke

SpecTwice == Init /\ [][NextTwice]_vars

---------------------------------------------------------------------------
(* Properties.                                                             *)

\* the invocation has ended and the description gave a path and a text
IsEvent == pc = "exited" /\ IsStr(file_path) /\ IsStr(content)

ADVISORY_RULES ==
    {"implicit-type-usage", "missing-doc", "missing-cancellation-param",
     "naming-shape-mismatch", "contract-annotation-name",
     "contract-annotation-produces", "contract-annotation-tags",
     "contract-annotation-summary", "contract-annotation-authorization",
     "direct-domain-param", "log-interpolation", "log-sensitive-data",
     "sql-missing-header", "sql-undocumented-param"}
BLOCKING_RULES ==
    {"sql-string-concat", "sql-nonparam-where", "layer-domain", "layer-application"}

IllFormed(v) ==
    IF v.k # "obj" THEN TRUE
    ELSE IF "tool_input" \notin DOMAIN v.o THEN TRUE
    ELSE IF v.o.tool_input.k # "obj" THEN TRUE
    ELSE LET ti == v.o.tool_input.o
         IN  \/ "file_path" \notin DOMAIN ti
             \/ ti.file_path.k # "str"
             \/ "tool_name" \notin DOMAIN v.o
             \/ v.o.tool_name.k # "str"
             \/ v.o.tool_name.s \notin {"Write", "Edit", "MultiEdit"}
             \/ /\ v.o.tool_name.s = "MultiEdit"
                /\ "edits" \in DOMAIN ti
                /\ ti.edits.k = "list"
                /\ \E i \in 1..Len(ti.edits.xs) : ti.edits.xs[i].k # "obj"

\* C2: fail-open: on every input that is not a well-formed edit description
\* the hook does not raise, exits with status 0 and prints no diagnostic.
C2_FailOpen ==
    pc = "exited" /\ IllFormed(stdin)
      => ~raised /\ exit_code = 0 /\ diagnostics = <<>>

Impure(namespace) ==
    \E k \in 1..Len(DOMAIN_FORBIDDEN) : Contains(DOMAIN_FORBIDDEN[k], namespace)

\* C4: for a file of layer Domain, an import whose namespace contains a
\* member of the impure list gives at least one BLOCK diagnostic and exit
\* status 2; when no import contains one, there is no diagnostic.
C4_DomainImpureBlocks ==
    IsEvent /\ hook = "layer_dependency" /\ layer = "Domain" =>
      IF \E u \in 1..Len(usings) : Impure(usings[u].namespace)
      THEN /\ exit_code = 2
           /\ \A u \in 1..Len(usings) :
                Impure(usings[u].namespace) =>
                  \E i \in 1..Len(diagnostics) :
                     /\ diagnostics[i].severity = "BLOCK"
                     /\ diagnostics[i].line = usings[u].line
      ELSE diagnostics = <<>> /\ exit_code = 0

\* a Domain file blocked for a namespace that has the marker inside a longer
\* segment only
C4_Witness ==
    /\ IsEvent /\ hook = "layer_dependency" /\ layer = "Domain"
    /\ exit_code = 2
    /\ Len(usings) = 1
    /\ usings[1].namespace = "Foo.InfrastructureHelpers"
    /\ HasBlock(diagnostics)

\* token is a whole dot-delimited segment of the namespace
IsSegment(token, namespace) ==
    \/ namespace = token
    \/ StartsWith(namespace, token \o ".")
    \/ EndsWith(namespace, "." \o token)
    \/ Contains("." \o token \o ".", namespace)

\* C5: for a file of layer Application an import is a BLOCK violation if and
\* only if a whole segment of its namespace is Infrastructure; when no import
\* is one there is no diagnostic and the exit status is 0, else it is 2.
C5_ApplicationSegmentExact ==
    IsEvent /\ hook = "layer_dependency" /\ layer = "Application" =>
      /\ \A u \in 1..Len(usings) :
           IsSegment("Infrastructure", usings[u].namespace)
             <=> \E i \in 1..Len(diagnostics) :
                    /\ diagnostics[i].severity = "BLOCK"
                    /\ diagnostics[i].line = usings[u].line
                    /\ diagnostics[i].subject = usings[u].namespace
      /\ Len(diagnostics)
           = Cardinality({u \in 1..Len(usings) :
                            IsSegment("Infrastructure", usings[u].namespace)})
      /\ exit_code = IF Len(diagnostics) > 0 THEN 2 ELSE 0

\* an Application file with both imports of the claim: the one with the
\* whole segment is the only one reported
C5_Witness ==
    /\ IsEvent /\ hook = "layer_dependency" /\ layer = "Application"
    /\ Len(usings) = 2
    /\ usings[1].namespace = "Foo.InfrastructureHelpers"
    /\ usings[2].namespace = "Foo.Infrastructure.Data"
    /\ Len(diagnostics) = 1
    /\ diagnostics[1].line = 2
    /\ exit_code = 2

\* C6: the layer validator never blocks a file of layer Api or Infrastructure
\* or of no layer: the diagnostics of an Api file are WARN, and a file of
\* layer Infrastructure or of no layer has no diagnostic.
C6_OuterLayersNeverBlocked ==
    IsEvent /\ hook = "layer_dependency" =>
      /\ layer \in {"Api", "Infrastructure", "None"} =>
           exit_code = 0 /\ ~HasBlock(diagnostics)
      /\ layer = "Api" =>
           /\ \A i \in 1..Len(diagnostics) : diagnostics[i].severity = "WARN"
           /\ Len(diagnostics)
                = Cardinality({<<u, k>> \in (1..Len(usings)) \X (1..Len(API_WARN_PATTERNS)) :
                                 Contains(API_WARN_PATTERNS[k], usings[u].namespace)})
      /\ layer \in {"Infrastructure", "None"} => diagnostics = <<>>

\* an Api file that imports a repository namespace is warned and allowed
C6_Witness ==
    /\ IsEvent /\ hook = "layer_dependency" /\ layer = "Api"
    /\ \E u \in 1..Len(usings) : Contains("Repositories", usings[u].namespace)
    /\ Len(diagnostics) > 0
    /\ exit_code = 0

\* the diagnostics of the rule printed for line i
DiagsAt(rule, i) ==
    {d \in 1..Len(diagnostics) :
       diagnostics[d].rule = rule /\ diagnostics[d].line = i}

\* the values of all the comparisons "= <digits>" of the line
ComparedNumbers(original) ==
    {ToInt(NumericAt(original, j)) :
       j \in {q \in 1..Len(original) : NumericAt(original, q) # ""}}

\* C7: in an in-scope SQL file, on every non-comment line inside a WHERE
\* clause, a comparison with a numeric literal greater than 1 gives exactly
\* one BLOCK diagnostic for the line, a comparison with a string literal
\* gives exactly one BLOCK diagnostic for the line, and comparisons with 0 or
\* 1 give none, also when the line has several comparisons.
C7_WhereComparisons ==
    IsEvent /\ hook = "sql_format" /\ EndsWith(file_path.s, ".sql")
      /\ (Contains("Infrastructure", file_path.s) \/ Contains("infrastructure", file_path.s))
      /\ content.s # ""
    => LET lines == SplitLines(content.s)
       IN  \A i \in 1..Len(lines) :
             LET original == Strip(lines[i])
                 upper == Upper(original)
                 inside == /\ ~SqlCommentLine(upper)
                           /\ InWhereBefore(lines, i) \/ Contains("WHERE", upper)
                           /\ ~HasTerminator(upper)
                 numeric == {d \in DiagsAt("sql-nonparam-where", i) :
                               diagnostics[d].subject # "string"}
                 literal == {d \in DiagsAt("sql-nonparam-where", i) :
                               diagnostics[d].subject = "string"}
             IN  inside =>
                   /\ \A d \in numeric \cup literal : diagnostics[d].severity = "BLOCK"
                   /\ Cardinality(numeric)
                        = (IF \E v \in ComparedNumbers(original) : v > 1 THEN 1 ELSE 0)
                   /\ Cardinality(literal)
                        = (IF Searches(StringLiteralRe, original) THEN 1 ELSE 0)

\* a parameter, first or not, whose type name ends in Command or Query
ParameterTypeRe ==
    Cat(<<Cls({"(", ","}), Star(SpaceRe), Star(WordRe),
          Alt(<<Lit("Command"), Lit("Query")>>), Plus(SpaceRe), Plus(WordRe),
          Star(SpaceRe), Cls({",", ")"})>>)

\* C8: for an endpoint file and every resulting non-empty text the contract hook
\* prints one WARN per required builder-call marker that is absent from the
\* text, plus one WARN when a parameter list has a type name ending in
\* Command or Query, and exits with status 0.
C8_EndpointWarnings ==
    IsEvent /\ hook = "openapi_contract" /\ is_endpoint_file(file_path.s)
      /\ content.s # ""
    => LET text == content.s
           absent == Len(check_with_name(text)) + Len(check_produces(text))
                       + Len(check_with_tags(text))
                       + Len(check_summary_or_description(text))
                       + Len(check_require_authorization(text))
       IN  /\ Len(diagnostics)
                = absent + (IF Searches(ParameterTypeRe, text) THEN 1 ELSE 0)
           /\ \A d \in 1..Len(diagnostics) : diagnostics[d].severity = "WARN"
           /\ exit_code = 0

\* C9: in a managed-language file a public type declaration whose name ends
\* with Command or Query and that is not a sealed record gives exactly one
\* WARN that names the type; a sealed record, or a name with neither suffix,
\* gives no naming-shape-mismatch WARN.
C9_SealedRecordNaming ==
    IsEvent /\ hook = "coding_standards" /\ EndsWith(file_path.s, ".cs")
    => \A m \in DeclModifiers, k \in DeclKinds, n \in DeclNames :
         content.s = "public " \o m \o k \o " " \o n =>
           LET naming == {d \in 1..Len(diagnostics) :
                            diagnostics[d].rule = "naming-shape-mismatch"}
               sealed_record == m \in {"sealed ", "sealed partial "} /\ k = "record"
               suffixed == EndsWith(n, "Command") \/ EndsWith(n, "Query")
           IN  IF suffixed /\ ~sealed_record
               THEN /\ Cardinality(naming) = 1
                    /\ \A d \in naming : /\ diagnostics[d].severity = "WARN"
                                         /\ diagnostics[d].subject = n
               ELSE naming = {}

\* no line of the text has the logger-call shape
NoLoggerCall(text) ==
    \A i \in 1..Len(SplitLines(text)) : ~IsLoggerCall(SplitLines(text)[i])

\* C10: for every resulting text in which no line has the logger-call shape,
\* the two logging checks give no diagnostic and the hook prints none, even
\* when the text has interpolation markers, sensitive names or unbalanced
\* parentheses.
C10_NoLoggerCallNoLoggingDiagnostics ==
    IsEvent /\ hook = "serilog_enforcer" /\ NoLoggerCall(content.s)
    => /\ diagnostics = <<>>
       /\ check_string_interpolation(content.s) = <<>>
       /\ check_pii_parameters(content.s) = <<>>
       /\ exit_code = 0

\* a text that passes the quick logger test of main, has an interpolation
\* marker, a sensitive named argument and unbalanced parentheses, but no
\* logger call
C10_Witness ==
    /\ IsEvent /\ hook = "serilog_enforcer" /\ NoLoggerCall(content.s)
    /\ EndsWith(file_path.s, ".cs")
    /\ has_logger_usage(content.s)
    /\ Contains("$\"", content.s)
    /\ Count(content.s, "(") # Count(content.s, ")")
    /\ \E i \in 1..Len(SplitLines(content.s)) :
          \E a \in 1..Len(NamedArgs(SplitLines(content.s)[i])) :
             IsPii(NamedArgs(SplitLines(content.s)[i])[a])
    /\ diagnostics = <<>>

\* the rules that look at the text as a whole and name no line
WHOLE_FILE_RULES ==
    {"contract-annotation-name", "contract-annotation-produces",
     "contract-annotation-tags", "contract-annotation-summary",
     "contract-annotation-authorization", "direct-domain-param",
     "sql-missing-header", "sql-undocumented-param"}

Unclassified(path) ==
    /\ ~EndsWith(path, ".cs")
    /\ ~(/\ EndsWith(path, ".sql")
         /\ Contains("Infrastructure", path) \/ Contains("infrastructure", path))

\* C12: for every path that selects no rule set and no layer, and for every
\* resulting text, each hook allows the event (exit status 0) with no
\* diagnostic, and no layer is detected.
C12_UnclassifiedShortCircuits ==
    IsEvent /\ Unclassified(file_path.s)
    => diagnostics = <<>> /\ exit_code = 0 /\ layer = "None" /\ usings = <<>>

\* an SQL file outside the infrastructure tree whose text concatenates a
\* parameter into a string, allowed without a diagnostic
C12_Witness ==
    /\ IsEvent /\ hook = "sql_format"
    /\ Unclassified(file_path.s)
    /\ EndsWith(file_path.s, ".sql")
    /\ check_string_concatenation(content.s) # <<>>
    /\ diagnostics = <<>>
    /\ exit_code = 0

\* the description is an object whose tool_input is an object with a
\* string path
HasPath(v) ==
    /\ v.k = "obj"
    /\ "tool_input" \in DOMAIN v.o
    /\ v.o.tool_input.k = "obj"
    /\ "file_path" \in DOMAIN v.o.tool_input.o
    /\ v.o.tool_input.o.file_path.k = "str"

\* the operation kind of a description that has a path ("" when the kind is
\* missing or is not a string)
KindOf(v) ==
    IF "tool_name" \in DOMAIN v.o /\ v.o.tool_name.k = "str"
    THEN v.o.tool_name.s ELSE ""

\* the fragment of one entry of the list, a missing one counting as empty
FragmentOf(entry) ==
    IF "new_string" \in DOMAIN entry.o THEN entry.o.new_string.s ELSE ""

\* the fragments of the entries in list order, separated by single newlines
RECURSIVE FragmentsText(_)
FragmentsText(xs) ==
    IF Len(xs) = 0 THEN ""
    ELSE IF Len(xs) = 1 THEN FragmentOf(xs[1])
    ELSE FragmentsText(SubSeq(xs, 1, Len(xs) - 1)) \o "\n" \o FragmentOf(xs[Len(xs)])

\* the entries are objects whose fragment is a string or is missing
Fragments(edits) ==
    /\ edits.k = "list"
    /\ \A i \in 1..Len(edits.xs) :
         /\ edits.xs[i].k = "obj"
         /\ "new_string" \in DOMAIN edits.xs[i].o => edits.xs[i].o.new_string.k = "str"

\* C13: the normalizer gives the path of the description and, for a full
\* replacement, the replacement text; for a single fragment, the fragment;
\* for a list of fragments, the fragments in list order separated by single
\* newlines, a missing fragment counting as empty; and for any other kind the
\* empty text, which is allowed with no diagnostic.
C13_Normalizer ==
    pc = "exited" /\ HasPath(stdin) =>
      LET ti == stdin.o.tool_input.o
          kind == KindOf(stdin)
          given(key) == key \in DOMAIN ti /\ ti[key].k = "str"
      IN  /\ kind = "Write" /\ given("content")
            => file_path = ti.file_path /\ content = ti.content
          /\ kind = "Edit" /\ given("new_string")
            => file_path = ti.file_path /\ content = ti.new_string
          /\ kind = "MultiEdit" /\ "edits" \in DOMAIN ti /\ Fragments(ti.edits)
            => file_path = ti.file_path /\ content = JStr(FragmentsText(ti.edits.xs))
          /\ kind \notin {"Write", "Edit", "MultiEdit"}
            => /\ file_path = ti.file_path /\ content = JStr("")
               /\ ~raised /\ diagnostics = <<>> /\ exit_code = 0

\* a list of two different non-empty fragments, joined in list order
C13_Witness ==
    /\ pc = "exited" /\ HasPath(stdin) /\ KindOf(stdin) = "MultiEdit"
    /\ "edits" \in DOMAIN stdin.o.tool_input.o
    /\ Fragments(stdin.o.tool_input.o.edits)
    /\ Len(stdin.o.tool_input.o.edits.xs) = 2
    /\ LET xs == stdin.o.tool_input.o.edits.xs
       IN  /\ FragmentOf(xs[1]) # "" /\ FragmentOf(xs[2]) # ""
           /\ FragmentOf(xs[1]) # FragmentOf(xs[2])
           /\ content = JStr(FragmentOf(xs[1]) \o "\n" \o FragmentOf(xs[2]))

\* C14: a second invocation of a hook on the same (path, text), or on the
\* same description, prints the same diagnostics in the same order and ends
\* with the same status as the first, whatever the first invocation did and
\* whatever the hash seeds of the two processes are.
C14_Determinism ==
    /\ pc = "exited"
    /\ run = 2
    /\ \/ stdin = first.stdin
       \/ IsStr(file_path) /\ file_path = first.file_path /\ content = first.content
    => /\ diagnostics = first.diagnostics
       /\ exit_code = first.exit_code
       /\ raised = first.raised

\* two invocations with different hash seeds and different descriptions of
\* the same text, each listing the same two undocumented parameters
C14_Witness ==
    /\ IsEvent /\ run = 2 /\ hook = "sql_format"
    /\ hash_seed # first.hash_seed
    /\ stdin # first.stdin
    /\ file_path = first.file_path /\ content = first.content
    /\ \E d \in 1..Len(diagnostics) :
          /\ diagnostics[d].rule = "sql-undocumented-param"
          /\ Contains(", ", diagnostics[d].subject)
    /\ diagnostics = first.diagnostics

\* the positions at which sub starts in s
Occurrences(sub, s) ==
    {i \in 1..Len(s) : i + Len(sub) - 1 <= Len(s) /\ SubSeq(s, i, i + Len(sub) - 1) = sub}

\* the positions of the clause-terminator keywords in the upper-cased line
TerminatorsAt(upper) ==
    UNION {Occurrences(WHERE_TERMINATORS[k], upper) : k \in 1..Len(WHERE_TERMINATORS)}

\* Inside (TRUE) or Outside (FALSE) at position q of a line, for the machine
\* that enters at each WHERE token and leaves at each terminator keyword,
\* given its state before the line
InsideAt(before, upper, q) ==
    LET tokens == {p \in Occurrences("WHERE", upper) \cup TerminatorsAt(upper) : p < q}
    IN  IF tokens = {} THEN before ELSE Max(tokens) \in Occurrences("WHERE", upper)

\* the state of that machine after line i of the text
RECURSIVE InsideAfter(_, _)
InsideAfter(lines, i) ==
    IF i = 0 THEN FALSE
    ELSE LET upper == Upper(Strip(lines[i]))
         IN  IF SqlCommentLine(upper) THEN InsideAfter(lines, i - 1)
             ELSE InsideAt(InsideAfter(lines, i - 1), upper, Len(upper) + 1)

\* the positions of the literal comparisons of a line, and those of them
\* that the check is to flag: a string literal, or a number greater than 1
ComparisonsAt(original) ==
    {q \in 1..Len(original) :
       M(StringLiteralRe, original, {q}) # {} \/ NumericAt(original, q) # ""}
FlaggableAt(original) ==
    {q \in 1..Len(original) :
       \/ M(StringLiteralRe, original, {q}) # {}
       \/ NumericAt(original, q) # "" /\ ToInt(NumericAt(original, q)) > 1}

\* C15: the sql-nonparam-where check flags a literal comparison if and only
\* if it lies after a WHERE token and before the next terminator keyword,
\* also when they are on the line of the comparison (WHERE id = 5 ORDER BY x
\* is flagged); stated for the non-comment lines that hold one comparison.
C15_FlaggedIffInsideWhere ==
    IsEvent /\ hook = "sql_format" /\ EndsWith(file_path.s, ".sql")
      /\ (Contains("Infrastructure", file_path.s) \/ Contains("infrastructure", file_path.s))
      /\ content.s # ""
    => LET lines == SplitLines(content.s)
       IN  \A i \in 1..Len(lines) :
             LET original == Strip(lines[i])
                 upper == Upper(original)
                 before == InsideAfter(lines, i - 1)
             IN  ~SqlCommentLine(upper) /\ Cardinality(ComparisonsAt(original)) = 1
                   => (DiagsAt("sql-nonparam-where", i) # {}
                         <=> \E q \in FlaggableAt(original) : InsideAt(before, upper, q))

\* The machine of C16 after line i: whether it is in a call, the balance of
\* parentheses, and whether line i was processed while in a call.
RECURSIVE CallAfter(_, _)
CallAfter(lines, i) ==
    IF i = 0 THEN [in_call |-> FALSE, balance |-> 0, examined |-> FALSE]
    ELSE LET prev == CallAfter(lines, i - 1)
             line == lines[i]
             enters == IsLoggerCall(line)
             balance == (IF enters THEN 0 ELSE prev.balance)
                          + Count(line, "(") - Count(line, ")")
         IN  IF CsCommentLine(Strip(line)) THEN [prev EXCEPT !.examined = FALSE]
             ELSE IF enters \/ prev.in_call
             THEN [in_call |-> balance > 0, balance |-> balance, examined |-> TRUE]
             ELSE [prev EXCEPT !.examined = FALSE]

\* the sensitive placeholders and named arguments of a line
SensitiveOn(line) ==
    Cardinality({n \in 1..Len(TemplateParams(line)) : IsPii(TemplateParams(line)[n])})
      + Cardinality({n \in 1..Len(NamedArgs(line)) : IsPii(NamedArgs(line)[n])})

\* C16: the log-sensitive-data check enters a call at a non-comment
\* logger-call line with the balance reset to 0, adds the parentheses of each
\* non-comment line while in the call and leaves on the line where the
\* balance becomes <= 0; a line is examined exactly when it is processed
\* while in the call, so in-call implies balance > 0 after every line, and a
\* line after the exit and before the next logger call gives no diagnostic.
C16_PiiCallMachine ==
    IsEvent /\ hook = "serilog_enforcer" /\ EndsWith(file_path.s, ".cs")
      /\ has_logger_usage(content.s)
    => LET lines == SplitLines(content.s)
       IN  \A i \in 1..Len(lines) :
             LET c == CallAfter(lines, i)
                 st == PiiAfter(lines, i)
             IN  /\ c.in_call => c.balance > 0
                 /\ st.in_log_call = c.in_call
                 /\ st.in_log_call => st.brace_depth > 0 /\ st.brace_depth = c.balance
                 /\ Cardinality(DiagsAt("log-sensitive-data", i))
                      = (IF c.examined THEN SensitiveOn(lines[i]) ELSE 0)

\* a call that opens and closes on the first line, followed by a line with a
\* sensitive placeholder that is not examined
C16_Witness ==
    /\ IsEvent /\ hook = "serilog_enforcer" /\ EndsWith(file_path.s, ".cs")
    /\ Len(SplitLines(content.s)) = 2
    /\ LET lines == SplitLines(content.s)
       IN  /\ CallAfter(lines, 1).examined /\ ~CallAfter(lines, 1).in_call
           /\ ~IsLoggerCall(lines[2]) /\ ~CsCommentLine(Strip(lines[2]))
           /\ SensitiveOn(lines[2]) > 0
           /\ DiagsAt("log-sensitive-data", 2) = {}

\* C17: the log-interpolation check reports each line at most once: a
\* non-comment logger-call line with an interpolation marker is reported at
\* its own line, a logger-call line without one has the next line inspected,
\* and no line number appears in two log-interpolation diagnostics.
C17_EachLineReportedOnce ==
    IsEvent /\ hook = "serilog_enforcer" /\ EndsWith(file_path.s, ".cs")
      /\ has_logger_usage(content.s)
    => LET lines == SplitLines(content.s)
           call(i) == ~CsCommentLine(Strip(lines[i])) /\ IsLoggerCall(lines[i])
           marked(i) == Searches(INTERPOLATION_PATTERN, lines[i])
       IN  \A i \in 1..Len(lines) :
             /\ call(i) /\ marked(i) => DiagsAt("log-interpolation", i) # {}
             /\ i > 1 /\ call(i - 1) /\ ~marked(i - 1) /\ marked(i)
                  => DiagsAt("log-interpolation", i) # {}
             /\ Cardinality(DiagsAt("log-interpolation", i)) <= 1

===========================================================================
